---- MODULE Spec2Model ----
(***************************************************************************)
(* State-machine model of the TACS adapter components of                   *)
(* src/omfsi/tacs_component.py (TacsSolver, TacsFunctions, PrescribedLoad) *)
(* running SPMD on the ranks of an MPI communicator.                       *)
(*                                                                         *)
(* Conventions                                                             *)
(*  - Ranks are 0..comm_size-1.  Every entry point is invoked by the       *)
(*    framework on all ranks of the communicator; one action of the model  *)
(*    is the execution of one entry point on every rank, and a collective  *)
(*    inside it completes only when every rank reaches it.                 *)
(*  - A numpy array / TACS vector is a sequence; python index k is         *)
(*    position k+1.                                                        *)
(*  - Floating point values are modelled by integers; the stiffness        *)
(*    operator of the engine is chosen unimodular so that an exact linear  *)
(*    solve stays in the integers.                                         *)
(*  - An exception raised by a handler is the "exc" field of the per-rank  *)
(*    result; statements after the raising one are not executed.           *)
(***************************************************************************)
EXTENDS Integers, Sequences, FiniteSets, TLC

VARIABLES
    comm_size,    \* self.comm.size: number of ranks
    state_size,   \* [rank -> tacs.createVec().getArray().size]
    node_size,    \* [rank -> tacs.createNodeVec().getArray().size]
    func_cfg,     \* func_list handed over by tacs_func_setup
    solver,       \* [rank -> attributes of the TacsSolver instance]
    funcs,        \* [rank -> attributes of the TacsFunctions instance]
    load,         \* [rank -> attributes of the PrescribedLoad instance]
    tacs,         \* [rank -> state of the TACS engine (assembler, mat, pc)]
    call,         \* the last entry point invocation: arguments and results
    calls         \* number of entry point invocations so far

vars == <<comm_size, state_size, node_size, func_cfg, solver, funcs, load, tacs, call,
          calls>>

----------------------------------------------------------------------------
(* Bounds of the model *)

MaxRanks == 2
MaxNodes == 2
NumDV == 2
MaxCalls == 2

\* degrees of freedom per node of the meshes explored
DofChoices == {2, 3, 6}

Ranks == 0 .. (comm_size - 1)

----------------------------------------------------------------------------
(* numpy / python helpers *)

RECURSIVE SeqSum(_)
\* np.sum of a list
SeqSum(s) == IF Len(s) = 0 THEN 0 ELSE s[1] + SeqSum(Tail(s))

\* python slice lst[:k] for k >= 0
SliceTo(lst, k) == SubSeq(lst, 1, IF k < Len(lst) THEN k ELSE Len(lst))

\* an array given entry by entry, held as a tuple of its values
Array(v) == v \o <<>>

\* np.arange(a, b, dtype=int): the indices a, a+1, .., b-1
Arange(a, b) == Array([i \in 1 .. (IF b > a THEN b - a ELSE 0) |-> a + i - 1])

\* np.zeros(n)
Zeros(n) == Array([i \in 1 .. n |-> 0])

\* v + w, v - w and a*v on arrays of equal length
VAdd(v, w) == Array([i \in 1 .. Len(v) |-> v[i] + w[i]])
VSub(v, w) == Array([i \in 1 .. Len(v) |-> v[i] - w[i]])
VScale(a, v) == Array([i \in 1 .. Len(v) |-> a * v[i]])

\* np.dot
Dot(v, w) == SeqSum(Array([i \in 1 .. Len(v) |-> v[i] * w[i]]))

\* comm.allgather(x): the list of every rank's value, ordered by rank
Allgather(f) == Array([i \in 1 .. comm_size |-> f[i - 1]])

\* a handler's results on every rank, rank r at position r+1
PerRank(res) == Array([i \in 1 .. comm_size |-> res[i - 1]])

\* int(state_size / (node_size / 3)) under true division: the quotient
\* 3*state_size/node_size truncated (exact for the sizes explored here)
DofPerNode(ssize, nsize) == (3 * ssize) \div nsize

----------------------------------------------------------------------------
(* Component attributes after initialize() *)

NoVec == <<>>

\* TacsSolver.initialize
SolverInitial ==
    [status |-> "initialized", exc |-> "none",
     factory |-> TRUE,        \* options['tacs_solver_setup'] is a function
     check_partials |-> TRUE, write_f5 |-> TRUE,
     ndof |-> 0, s1 |-> 0, s2 |-> 0, n1 |-> 0, n2 |-> 0,
     x_s0_src |-> <<>>, f_s_src |-> <<>>, ndv |-> 0,
     res |-> NoVec, force |-> NoVec, ans |-> NoVec,
     psi_s |-> NoVec, xpt_sens |-> NoVec,
     allgathers |-> 0]

\* TacsFunctions.initialize
FuncsInitial ==
    [status |-> "initialized", exc |-> "none",
     factory |-> TRUE,        \* options['tacs_func_setup'] has been set
     check_partials |-> TRUE, mass |-> FALSE,
     s1 |-> 0, s2 |-> 0, n1 |-> 0, n2 |-> 0,
     x_s0_src |-> <<>>, u_s_src |-> <<>>, ndv |-> 0,
     func_list |-> <<>>, has_f_struct |-> FALSE, n_mass_outputs |-> 0,
     f_struct_shape |-> 0,
     ans |-> NoVec, xpt_sens |-> NoVec,
     allgathers |-> 0]

\* PrescribedLoad.initialize
LoadInitial ==
    [status |-> "initialized", exc |-> "none",
     factory |-> TRUE,        \* options['get_tacs'] is a function
     ndof |-> 0, n1 |-> 0, n2 |-> 0,
     x_s0_src |-> <<>>, f_s_size |-> 0,
     allgathers |-> 0]

----------------------------------------------------------------------------
(* setup(): the part before the first collective, per rank *)

\* TacsSolver.setup up to self.ndof: calling the default None of
\* options['tacs_solver_setup'] raises TypeError, and the division raises
\* ZeroDivisionError when the rank owns no node
SolverSetupExc(r) ==
    IF ~solver[r].factory THEN "TypeError"
    ELSE IF node_size[r] = 0 THEN "ZeroDivisionError"
    ELSE "none"
SolverSetupRaises(r) == SolverSetupExc(r) # "none"

\* PrescribedLoad.setup up to self.ndof
LoadSetupExc(r) ==
    IF ~load[r].factory THEN "TypeError"
    ELSE IF node_size[r] = 0 THEN "ZeroDivisionError"
    ELSE "none"
LoadSetupRaises(r) == LoadSetupExc(r) # "none"

\* TacsFunctions.setup before the allgather: reading the option
\* 'tacs_func_setup', declared without a default, raises when it was not set
FuncsSetupExc(r) == IF ~funcs[r].factory THEN "RuntimeError" ELSE "none"
FuncsSetupRaises(r) == FuncsSetupExc(r) # "none"

\* prefix sums of setup: np.sum(lst[:irank]) and np.sum(lst[:irank+1])
\* faulty variant: the start of the range takes the slice of the end
RangeStartOffByOne(lst, irank) == SeqSum(SliceTo(lst, irank + 1))
RangeStart(lst, irank) == SeqSum(SliceTo(lst, irank))
RangeEnd(lst, irank) == SeqSum(SliceTo(lst, irank + 1))

\* TacsSolver.setup on rank r, every rank having reached the allgathers
SolverSetupRank(r) ==
    LET s_list == Allgather(state_size)
        n_list == Allgather(node_size)
        s1 == RangeStart(s_list, r)
        s2 == RangeEnd(s_list, r)
        n1 == RangeStart(n_list, r)
        n2 == RangeEnd(n_list, r)
    IN  [SolverInitial EXCEPT
            !.status = "setup", !.ndv = NumDV,
            !.res = Zeros(state_size[r]), !.force = Zeros(state_size[r]),
            !.ans = Zeros(state_size[r]), !.psi_s = Zeros(state_size[r]),
            !.xpt_sens = Zeros(node_size[r]),
            !.ndof = DofPerNode(state_size[r], node_size[r]),
            !.s1 = s1, !.s2 = s2, !.n1 = n1, !.n2 = n2,
            !.x_s0_src = Arange(n1, n2), !.f_s_src = Arange(s1, s2),
            !.allgathers = 2]

\* func_list without the mass functions, in the configured order
RECURSIVE FuncNoMass(_)
FuncNoMass(fl) ==
    IF Len(fl) = 0 THEN <<>>
    ELSE IF fl[1] = "mass" THEN FuncNoMass(Tail(fl))
         ELSE <<fl[1]>> \o FuncNoMass(Tail(fl))

\* faulty variant: 'mass' is declared for every mass function of the list
DeclaresMassEveryTime(func, mass) == func = "mass"

\* lines 362-365: this pass of the loop calls add_output('mass')
DeclaresMass(func, mass) == func = "mass" /\ ~mass

RECURSIVE MassOutputs(_, _)
\* number of add_output('mass') calls made by the loop over fl, self.mass
\* being mass on entry
MassOutputs(fl, mass) ==
    IF Len(fl) = 0 THEN 0
    ELSE IF DeclaresMass(fl[1], mass) THEN 1 + MassOutputs(Tail(fl), TRUE)
         ELSE MassOutputs(Tail(fl), mass)

\* TacsFunctions.setup on rank r
FuncsSetupRank(r) ==
    LET s_list == Allgather(state_size)
        n_list == Allgather(node_size)
        s1 == RangeStart(s_list, r)
        s2 == RangeEnd(s_list, r)
        n1 == RangeStart(n_list, r)
        n2 == RangeEnd(n_list, r)
        has_mass == \E i \in 1 .. Len(func_cfg) : func_cfg[i] = "mass"
    IN  [FuncsInitial EXCEPT
            !.status = "setup", !.ndv = NumDV,
            !.ans = Zeros(state_size[r]),
            !.xpt_sens = Zeros(node_size[r]),
            !.s1 = s1, !.s2 = s2, !.n1 = n1, !.n2 = n2,
            !.x_s0_src = Arange(n1, n2), !.u_s_src = Arange(s1, s2),
            !.mass = has_mass,
            !.n_mass_outputs = MassOutputs(func_cfg, FuncsInitial.mass),
            !.func_list = FuncNoMass(func_cfg),
            !.has_f_struct = Len(FuncNoMass(func_cfg)) > 0,
            !.f_struct_shape = Len(FuncNoMass(func_cfg)),
            !.allgathers = 2]

\* PrescribedLoad.setup on rank r
LoadSetupRank(r) ==
    LET n_list == Allgather(node_size)
        n1 == RangeStart(n_list, r)
        n2 == RangeEnd(n_list, r)
    IN  [LoadInitial EXCEPT
            !.status = "setup",
            !.ndof = DofPerNode(state_size[r], node_size[r]),
            !.n1 = n1, !.n2 = n2,
            !.x_s0_src = Arange(n1, n2),
            !.f_s_size = state_size[r],
            !.allgathers = 1]

\* A rank that raised before the collective leaves it unmatched: the ranks
\* that entered it stay blocked in it.
Raised(initial, exc) == [initial EXCEPT !.status = "failed", !.exc = exc]
Blocked(initial) == [initial EXCEPT !.status = "blocked", !.allgathers = 1]

\* TacsSolver.setup on every rank
TacsSolver_setup ==
    /\ \A r \in Ranks : solver[r].status = "initialized"
    /\ solver' = [r \in Ranks |->
                    IF SolverSetupRaises(r) THEN Raised(solver[r], SolverSetupExc(r))
                    ELSE IF \E q \in Ranks : SolverSetupRaises(q)
                         THEN Blocked(solver[r])
                         ELSE SolverSetupRank(r)]
    /\ UNCHANGED <<comm_size, state_size, node_size, func_cfg, funcs, load, tacs, call, calls>>

\* TacsFunctions.setup on every rank
TacsFunctions_setup ==
    /\ \A r \in Ranks : funcs[r].status = "initialized"
    /\ funcs' = [r \in Ranks |->
                    IF FuncsSetupRaises(r) THEN Raised(funcs[r], FuncsSetupExc(r))
                    ELSE IF \E q \in Ranks : FuncsSetupRaises(q)
                         THEN Blocked(funcs[r])
                         ELSE FuncsSetupRank(r)]
    /\ UNCHANGED <<comm_size, state_size, node_size, func_cfg, solver, load, tacs, call, calls>>

\* PrescribedLoad.setup on every rank
PrescribedLoad_setup ==
    /\ \A r \in Ranks : load[r].status = "initialized"
    /\ load' = [r \in Ranks |->
                    IF LoadSetupRaises(r) THEN Raised(load[r], LoadSetupExc(r))
                    ELSE IF \E q \in Ranks : LoadSetupRaises(q)
                         THEN Blocked(load[r])
                         ELSE LoadSetupRank(r)]
    /\ UNCHANGED <<comm_size, state_size, node_size, func_cfg, solver, funcs, tacs, call, calls>>

----------------------------------------------------------------------------
(* The TACS engine (external library), by the contract the adapter relies  *)
(* on: R = K(dv, x) * u - f, boundary conditions on the first local dof.   *)
(* K couples the dofs in pairs (1,2), (3,4), ...: each block is            *)
(* [[1+c*c, c], [c, 1]] with c depending on the design variables and the   *)
(* node spacing, so K is symmetric positive definite with determinant 1.   *)

NoPoint == [dv |-> <<>>, x |-> <<>>]

\* the engine as the factory returns it: mesh nodes and design variables
\* at their initial values, nothing assembled, nothing factored
EngineInitial(r) ==
    [dv |-> Array([i \in 1 .. NumDV |-> 1]),
     nodes |-> Zeros(node_size[r]),
     vars |-> Zeros(state_size[r]),
     mat |-> NoPoint,
     pc |-> NoPoint,
     phase |-> "Configured"]

\* stiffness coefficient at a linearization point
Coef(p) == p.dv[1] + (IF Len(p.x) >= 2 THEN p.x[2] - p.x[1] ELSE 0)

\* K(c) * v
KMul(c, v) ==
    Array([k \in 1 .. Len(v) |->
        IF k % 2 = 0 THEN c * v[k - 1] + v[k]
        ELSE IF k + 1 <= Len(v) THEN (1 + c * c) * v[k] + c * v[k + 1]
             ELSE v[k]])

\* (dK/dc)(c) * v
DKMul(c, v) ==
    Array([k \in 1 .. Len(v) |->
        IF k % 2 = 0 THEN v[k - 1]
        ELSE IF k + 1 <= Len(v) THEN 2 * c * v[k] + v[k + 1]
             ELSE 0])

\* the dofs constrained by boundary conditions
BCDofs(n) == IF n >= 1 THEN {1} ELSE {}

\* tacs.applyBCs(vec): zero the constrained entries
ApplyBCs(v) ==
    Array([k \in 1 .. Len(v) |-> IF k \in BCDofs(Len(v)) THEN 0 ELSE v[k]])

\* the assembled matrix times v: rows of constrained dofs are identity rows
MatMult(p, v) ==
    IF p = NoPoint THEN Zeros(Len(v))
    ELSE LET kv == KMul(Coef(p), v)
         IN  Array([k \in 1 .. Len(v) |->
                 IF k \in BCDofs(Len(v)) THEN v[k] ELSE kv[k]])

\* the exact solution u of (assembled matrix) * u = rhs
MatSolve(p, rhs) ==
    LET c == Coef(p)
        n == Len(rhs)
        u1 == IF n >= 1 THEN rhs[1] ELSE 0
    IN  Array([k \in 1 .. n |->
            IF k = 1 THEN u1
            ELSE IF k = 2 THEN rhs[2] - c * u1
            ELSE IF k % 2 = 0 THEN (1 + c * c) * rhs[k] - c * rhs[k - 1]
            ELSE IF k + 1 <= n THEN rhs[k] - c * rhs[k + 1]
            ELSE rhs[k]])

\* tacs.setDesignVars / setNodes: a mutation invalidates the factorization
SetDesignVars(t, dv) == [t EXCEPT !.dv = dv, !.phase = "Configured"]
SetNodes(t, x) == [t EXCEPT !.nodes = x, !.phase = "Configured"]

\* tacs.assembleJacobian(1, 0, 0, res, mat): the stiffness matrix at the
\* engine's current design variables and nodes
AssembleJacobian(t) ==
    [t EXCEPT !.mat = [dv |-> t.dv, x |-> t.nodes], !.phase = "Assembled"]

\* pc.factor(): factorization of the matrix as it is now
Factor(t) ==
    [t EXCEPT !.pc = t.mat,
              !.phase = IF t.phase = "Assembled" THEN "Factorized" ELSE @]

\* tacs.setVariables(ans)
SetVariables(t, v) == [t EXCEPT !.vars = v]

\* tacs.assembleRes(res): K(dv, nodes) * vars with the constrained rows zeroed
AssembleRes(t) == ApplyBCs(KMul(Coef([dv |-> t.dv, x |-> t.nodes]), t.vars))

\* gmres.solve(rhs, sol): the solution with the matrix when the iteration
\* converges, the unconverged iterate (here the start vector) otherwise;
\* without an assembled matrix the iteration cannot converge
GmresConverges(t, converges) == converges /\ t.mat # NoPoint /\ t.pc # NoPoint
GmresSolve(t, rhs, converges) ==
    IF GmresConverges(t, converges) THEN MatSolve(t.mat, rhs) ELSE Zeros(Len(rhs))

\* local part of psi^T d(K u)/d(dv): only dv[1] enters the stiffness
LocalAdjResProduct(t, psi) ==
    LET d == Dot(psi, DKMul(Coef([dv |-> t.dv, x |-> t.nodes]), t.vars))
    IN  Array([i \in 1 .. NumDV |-> IF i = 1 THEN d ELSE 0])

\* tacs.evalAdjointResXptSensProduct(adj, xpt_sens)
EvalAdjointResXptSensProduct(t, adj) ==
    LET d == Dot(adj, DKMul(Coef([dv |-> t.dv, x |-> t.nodes]), t.vars))
    IN  Array([k \in 1 .. Len(t.nodes) |->
            IF k = 1 THEN 0 - d ELSE IF k = 2 THEN d ELSE 0])

----------------------------------------------------------------------------
(* Framework vectors handed to the entry points *)

\* a global vector of the framework: entry k (python index k-1) is a*k
Ramp(a, n) == Array([k \in 1 .. n |-> a * k])

\* the entries of a global vector selected by src_indices
Gather(g, src) == Array([k \in 1 .. Len(src) |-> g[src[k] + 1]])

GlobalStateSize == SeqSum(Allgather(state_size))
GlobalNodeSize == SeqSum(Allgather(node_size))

\* design variable vectors handed over by the optimizer
\* scale factors of the vectors the framework hands over
Coefs == {0, 1}

DvChoices == {Array([i \in 1 .. NumDV |-> a + i]) : a \in Coefs}

NoInputs == [dv_struct |-> NoVec, x_s0 |-> NoVec, f_s |-> NoVec, u_s |-> NoVec]

\* inputs of TacsSolver on rank r: dv_struct replicated, x_s0 and f_s taken
\* from the global vectors at the src_indices declared in setup
SolverInputs(r, dv, ax, af) ==
    [dv_struct |-> dv,
     x_s0 |-> Gather(Ramp(ax, GlobalNodeSize), solver[r].x_s0_src),
     f_s |-> Gather(Ramp(af, GlobalStateSize), solver[r].f_s_src),
     u_s |-> NoVec]

NoSeeds == [dv_struct |-> NoVec, x_s0 |-> NoVec, f_s |-> NoVec, u_s |-> NoVec]

\* what one rank did in the last invocation
NoRankCall ==
    [exc |-> "none",          \* exception raised, "none" on a normal return
     log |-> <<>>,            \* engine calls made, in order
     inputs |-> NoInputs,
     u_s0 |-> NoVec,          \* outputs['u_s'] on entry
     residuals |-> NoVec,     \* residuals['u_s'] on return
     solve_phase |-> "none",  \* life cycle phase found by gmres.solve
     solve_pc |-> NoPoint,    \* factorization used by gmres.solve
     solve_mat |-> NoPoint,   \* matrix used by gmres.solve
     converged |-> TRUE,      \* what gmres.solve reported
     refactored |-> FALSE,    \* a factorization of other inputs was found on entry
     d_inputs0 |-> NoSeeds, d_inputs |-> NoSeeds,
     d_outputs0 |-> NoVec, d_outputs |-> NoVec,
     d_residuals0 |-> NoVec, d_residuals |-> NoVec,
     d_mass |-> 0,            \* d_outputs['mass']
     d_f_struct |-> NoVec,    \* d_outputs['f_struct']
     f_struct |-> NoVec,      \* outputs['f_struct']
     mass |-> 0,              \* outputs['mass']
     at_product |-> FALSE,    \* the rank reached evalAdjointResProduct
     product |-> NoVec]       \* result of evalAdjointResProduct

\* a handler's working state on one rank: component attributes, engine,
\* outputs['u_s'] of the framework and the record of the invocation
World(r) == [s |-> solver[r], g |-> funcs[r], t |-> tacs[r],
             u_s |-> call.u_s[r], c |-> NoRankCall]

Logged(w, name) == [w EXCEPT !.c.log = Append(@, name)]

----------------------------------------------------------------------------
(* TacsSolver *)

\* faulty variant: the sizes are gathered again at every update
PushDesignAndNodesRegather(w, inputs) ==
    LET w1 == [Logged(w, "setDesignVars") EXCEPT !.t = SetDesignVars(w.t, inputs.dv_struct)]
        w2 == [Logged(w1, "setNodes") EXCEPT !.t = SetNodes(w1.t, inputs.x_s0)]
    IN  [Logged(w2, "setNodes") EXCEPT
            !.t = SetNodes(w2.t, inputs.x_s0), !.s.allgathers = @ + 1]

\* _update_internal, lines 119-136: design variables and node coordinates
\* pushed into the engine (the nodes twice)
PushDesignAndNodes(w, inputs) ==
    LET w1 == [Logged(w, "setDesignVars") EXCEPT !.t = SetDesignVars(w.t, inputs.dv_struct)]
        w2 == [Logged(w1, "setNodes") EXCEPT !.t = SetNodes(w1.t, inputs.x_s0)]
    IN  [Logged(w2, "setNodes") EXCEPT !.t = SetNodes(w2.t, inputs.x_s0)]

\* faulty variant: the matrix is assembled and factored once and then reused
AssembleOnce(w) ==
    IF w.t.mat # NoPoint THEN w
    ELSE LET w1 == [Logged(w, "assembleJacobian") EXCEPT !.t = AssembleJacobian(w.t)]
         IN  [Logged(w1, "pc.factor") EXCEPT !.t = Factor(w1.t)]

\* faulty variant: the preconditioner is factored before the matrix is assembled
FactorThenAssemble(w) ==
    LET w1 == [Logged(w, "pc.factor") EXCEPT !.t = Factor(w.t)]
    IN  [Logged(w1, "assembleJacobian") EXCEPT !.t = AssembleJacobian(w1.t)]

\* _update_internal, lines 138-143: assemble the Jacobian, factor it
AssembleAndFactor(w) ==
    LET w1 == [Logged(w, "assembleJacobian") EXCEPT !.t = AssembleJacobian(w.t)]
    IN  [Logged(w1, "pc.factor") EXCEPT !.t = Factor(w1.t)]

\* faulty variant: the outputs are added to the solver's state vector
\* instead of replacing it
SolverUpdateInternalAdding(w, inputs, with_outputs) ==
    LET w1 == AssembleAndFactor(PushDesignAndNodes(w, inputs))
        ans == ApplyBCs(VAdd(w.s.ans, w.u_s))
    IN  IF with_outputs
        THEN [Logged(Logged(w1, "applyBCs"), "setVariables") EXCEPT
                 !.s.ans = ans, !.t = SetVariables(w1.t, ans)]
        ELSE w1

\* TacsSolver._update_internal(inputs, outputs)
SolverUpdateInternal(w, inputs, with_outputs) ==
    LET w1 == AssembleAndFactor(PushDesignAndNodes(w, inputs))
        ans == ApplyBCs(w.u_s)
    IN  IF with_outputs
        THEN [Logged(Logged(w1, "applyBCs"), "setVariables") EXCEPT
                 !.s.ans = ans, !.t = SetVariables(w1.t, ans)]
        ELSE w1

\* faulty variant: the residual is published without the final applyBCs
SolverApplyNonlinearNoBCs(w, inputs) ==
    LET w1 == SolverUpdateInternal([w EXCEPT !.c.inputs = inputs, !.c.u_s0 = w.u_s],
                                   inputs, TRUE)
        res == VSub(AssembleRes(w1.t), inputs.f_s)
    IN  [Logged(w1, "assembleRes") EXCEPT !.s.res = res, !.c.residuals = res]

\* TacsSolver.apply_nonlinear(inputs, outputs, residuals)
SolverApplyNonlinear(w, inputs) ==
    LET w1 == SolverUpdateInternal([w EXCEPT !.c.inputs = inputs, !.c.u_s0 = w.u_s],
                                   inputs, TRUE)
        res1 == AssembleRes(w1.t)
        res2 == VSub(res1, inputs.f_s)
        res3 == ApplyBCs(res2)
    IN  [Logged(Logged(w1, "assembleRes"), "applyBCs") EXCEPT
            !.s.res = res3, !.c.residuals = res3]

\* TacsSolver.solve_nonlinear(inputs, outputs)
SolverSolveNonlinear(w, inputs, converges) ==
    LET w1 == SolverUpdateInternal([w EXCEPT !.c.inputs = inputs, !.c.u_s0 = w.u_s],
                                   inputs, FALSE)
        force == ApplyBCs(inputs.f_s)
        ans == GmresSolve(w1.t, force, converges)
        w2 == [Logged(Logged(w1, "applyBCs"), "gmres.solve") EXCEPT
                  !.s.force = force, !.s.ans = ans,
                  !.c.solve_phase = w1.t.phase,
                  !.c.solve_pc = w1.t.pc, !.c.solve_mat = w1.t.mat,
                  !.c.converged = GmresConverges(w1.t, converges),
                  !.c.refactored = (w.t.pc # NoPoint /\ w.t.pc # w1.t.pc),
                  !.t.phase = IF GmresConverges(w1.t, converges) /\ w1.t.phase = "Factorized"
                              THEN "Converged" ELSE @,
                  !.u_s = ans]
        w3 == [Logged(w2, "setVariables") EXCEPT !.t = SetVariables(w2.t, ans)]
    IN  IF w3.s.write_f5 THEN Logged(w3, "writeToFile") ELSE w3

\* TacsSolver.solve_linear(d_outputs, d_residuals, mode)
SolverSolveLinear(w, d_outputs, d_residuals, mode, converges) ==
    LET w0 == [w EXCEPT !.c.d_outputs0 = d_outputs, !.c.d_outputs = d_outputs,
                        !.c.d_residuals0 = d_residuals, !.c.d_residuals = d_residuals]
    IN  IF mode = "fwd"
        THEN IF w0.s.check_partials THEN w0
             ELSE [w0 EXCEPT !.c.exc = "ValueError"]
        ELSE IF mode = "rev"
        THEN LET res == ApplyBCs(d_outputs)
                 psi_s == GmresSolve(w0.t, res, converges)
             IN  [Logged(Logged(w0, "applyBCs"), "gmres.solve") EXCEPT
                     !.s.res = res, !.s.psi_s = psi_s,
                     !.c.solve_phase = w0.t.phase,
                     !.c.solve_pc = w0.t.pc, !.c.solve_mat = w0.t.mat,
                     !.c.converged = GmresConverges(w0.t, converges),
                     !.c.d_residuals = psi_s]
        ELSE w0

\* faulty variant of +=: the seed is overwritten by the contribution
Overwrite(seed, contribution) == contribution
\* seed += contribution, as every update of d_inputs and d_outputs is written
Accumulate(seed, contribution) == VAdd(seed, contribution)

\* lines 271-273: res_array[ndof*i+j] = d_residuals['u_s'][3*i+j] for i over
\* the nodes and j in range(3), step m = 3*i+j; the first step that indexes
\* past the end of either array raises IndexError, the earlier ones stay
CopyLoop(ndof, nnodes, size, d_res) ==
    LET Dst(m) == ndof * (m \div 3) + (m % 3)
        bad == {m \in 0 .. (3 * nnodes - 1) : Dst(m) >= size \/ m >= Len(d_res)}
        stop == IF bad = {} THEN 3 * nnodes
                ELSE CHOOSE m \in bad : \A n \in bad : m <= n
        Last(k) == LET ms == {m \in 0 .. (stop - 1) : Dst(m) = k}
                   IN  IF ms = {} THEN -1 ELSE CHOOSE m \in ms : \A n \in ms : n <= m
    IN  [res |-> Array([k \in 1 .. size |->
                     IF Last(k - 1) < 0 THEN 0 ELSE d_res[Last(k - 1) + 1]]),
         exc |-> IF bad = {} THEN "none" ELSE "IndexError"]

NoKeys == [d_inputs |-> {}, d_outputs |-> {}, d_residuals |-> {}]

\* TacsSolver.apply_linear, lines 238-267: d_outputs['u_s'] branch
ApplyLinearOutputs(w, keys) ==
    IF "u_s" \notin keys.d_outputs THEN w
    ELSE LET ans == w.u_s
             res == ApplyBCs(MatMult(w.t.mat, ans))
         IN  [Logged(Logged(Logged(w, "setVariables"), "mat.mult"), "applyBCs") EXCEPT
                 !.s.ans = ans, !.s.res = res,
                 !.t = SetVariables(w.t, ans),
                 !.c.d_outputs = Accumulate(@, res)]

\* faulty variant: the residual buffer is not zeroed before the copy loop,
\* so the entries the loop does not write keep what was left in self.res
ApplyLinearLoadNoReset(w, inputs, keys) ==
    IF "f_s" \notin keys.d_inputs THEN w
    ELSE LET loop == CopyLoop(w.s.ndof, Len(inputs.x_s0) \div 3, Len(w.s.res),
                              w.c.d_residuals0)
         IN  IF loop.exc # "none"
             THEN [w EXCEPT !.s.res = loop.res, !.c.exc = loop.exc]
             ELSE LET res == ApplyBCs(Array([k \in 1 .. Len(loop.res) |->
                                 IF (k - 1) % w.s.ndof < 3 THEN loop.res[k]
                                 ELSE w.s.res[k]]))
                  IN  [Logged(w, "applyBCs") EXCEPT
                          !.s.res = res,
                          !.c.d_inputs.f_s = Accumulate(@, VScale(-1, res))]

\* lines 269-276: d_inputs['f_s'] branch
ApplyLinearLoad(w, inputs, keys) ==
    IF "f_s" \notin keys.d_inputs THEN w
    ELSE LET loop == CopyLoop(w.s.ndof, Len(inputs.x_s0) \div 3, Len(w.s.res),
                              w.c.d_residuals0)
         IN  IF loop.exc # "none"
             THEN [w EXCEPT !.s.res = loop.res, !.c.exc = loop.exc]
             ELSE LET res == ApplyBCs(loop.res)
                  IN  [Logged(w, "applyBCs") EXCEPT
                          !.s.res = res,
                          !.c.d_inputs.f_s = Accumulate(@, VScale(-1, res))]

\* lines 278-285: d_inputs['x_s0'] branch
ApplyLinearNodes(w, keys) ==
    IF "x_s0" \notin keys.d_inputs \/ w.c.exc # "none" THEN w
    ELSE LET ans == w.c.d_residuals0
             xpt_sens == EvalAdjointResXptSensProduct(w.t, ans)
         IN  [Logged(w, "evalAdjointResXptSensProduct") EXCEPT
                 !.s.ans = ans, !.s.xpt_sens = xpt_sens,
                 !.c.d_inputs.x_s0 = Accumulate(@, xpt_sens)]

\* lines 287-291: d_inputs['dv_struct'] branch up to the call of
\* evalAdjointResProduct, which reduces over the ranks
ApplyLinearDesign(w, keys) ==
    IF "dv_struct" \notin keys.d_inputs \/ w.c.exc # "none" THEN w
    ELSE [Logged(w, "evalAdjointResProduct") EXCEPT
             !.s.psi_s = w.c.d_residuals0, !.c.at_product = TRUE]

\* TacsSolver.apply_linear on one rank up to the reduction
SolverApplyLinear(w, inputs, d_inputs, d_outputs, d_residuals, keys, mode) ==
    LET w0 == SolverUpdateInternal(
                  [w EXCEPT !.c.inputs = inputs, !.c.u_s0 = w.u_s,
                            !.c.d_inputs0 = d_inputs, !.c.d_inputs = d_inputs,
                            !.c.d_outputs0 = d_outputs, !.c.d_outputs = d_outputs,
                            !.c.d_residuals0 = d_residuals,
                            !.c.d_residuals = d_residuals],
                  inputs, TRUE)
    IN  IF mode = "fwd"
        THEN IF w0.s.check_partials THEN w0
             ELSE [w0 EXCEPT !.c.exc = "ValueError"]
        ELSE IF mode = "rev" /\ "u_s" \in keys.d_residuals
        THEN ApplyLinearDesign(
                 ApplyLinearNodes(
                     ApplyLinearLoad(ApplyLinearOutputs(w0, keys), inputs, keys),
                     keys),
                 keys)
        ELSE w0

\* the sum over the ranks of the vectors f[1], .., f[comm_size]
SumOverRanks(f, n) ==
    Array([i \in 1 .. n |-> SeqSum(Array([q \in 1 .. comm_size |-> f[q][i]]))])

\* faulty variant of the guard of line 295: every rank adds the product
AddsProductEveryRank(rank) == TRUE
\* if self.comm.rank == 0
AddsProduct(rank) == rank = 0

\* lines 291-296 on rank r, ws being every rank's state at the reduction.
\* tacs.evalAdjointResProduct(psi_s, adj_res_product) gives the local
\* products summed over the ranks, the same vector on every rank; a rank
\* that waits for a rank that never calls stays blocked in the reduction.
SolverApplyLinearReduce(ws, r) ==
    LET w == ws[r + 1]
    IN  IF ~w.c.at_product THEN w
        ELSE IF \E q \in 1 .. comm_size : ~ws[q].c.at_product
        THEN [w EXCEPT !.c.exc = "blocked"]
        ELSE LET product == SumOverRanks(
                                Array([q \in 1 .. comm_size |->
                                    LocalAdjResProduct(ws[q].t, ws[q].s.psi_s)]),
                                NumDV)
             IN  [w EXCEPT
                     !.c.product = product,
                     !.c.d_inputs.dv_struct =
                         IF AddsProduct(r) THEN Accumulate(@, product) ELSE @]

----------------------------------------------------------------------------
(* The functions of interest of the engine.  "mass" depends on the design  *)
(* variables and the nodes only; "compliance" is u^T K u; any other        *)
(* function is dv[2] times the sum of the state.                           *)

EnginePoint(t) == [dv |-> t.dv, x |-> t.nodes]

\* the local part of the derivative of func w.r.t. the design variables
LocalDVSens(t, func) ==
    IF func = "mass"
    THEN Array([i \in 1 .. NumDV |-> Len(t.nodes) \div 3])
    ELSE IF func = "compliance"
    THEN Array([i \in 1 .. NumDV |->
             IF i = 1 THEN Dot(t.vars, DKMul(Coef(EnginePoint(t)), t.vars)) ELSE 0])
    ELSE Array([i \in 1 .. NumDV |-> IF i = 2 THEN SeqSum(t.vars) ELSE 0])

\* tacs.evalDVSens(func, dvsens): the local parts summed over the ranks
EvalDVSens(ws, func) ==
    SumOverRanks(Array([q \in 1 .. comm_size |-> LocalDVSens(ws[q].t, func)]), NumDV)

\* tacs.evalXptSens(func, xpt_sens)
EvalXptSens(t, func) ==
    LET d == IF func = "mass" THEN 1
             ELSE IF func = "compliance"
             THEN Dot(t.vars, DKMul(Coef(EnginePoint(t)), t.vars))
             ELSE 0
    IN  Array([k \in 1 .. Len(t.nodes) |->
            IF k = 1 THEN 0 - d ELSE IF k = 2 THEN d ELSE 0])

\* tacs.evalSVSens(func, prod)
EvalSVSens(t, func) ==
    IF func = "mass" THEN Zeros(Len(t.vars))
    ELSE IF func = "compliance" THEN VScale(2, KMul(Coef(EnginePoint(t)), t.vars))
    ELSE Array([k \in 1 .. Len(t.vars) |-> t.dv[2]])

\* the local part of the value of func: mass is linear in the design
\* variables and the node spacing, in agreement with its sensitivities
LocalFunction(t, func) ==
    IF func = "mass"
    THEN SeqSum(t.dv) * (Len(t.nodes) \div 3)
             + (IF Len(t.nodes) >= 2 THEN t.nodes[2] - t.nodes[1] ELSE 0)
    ELSE IF func = "compliance"
    THEN Dot(t.vars, KMul(Coef(EnginePoint(t)), t.vars))
    ELSE t.dv[2] * SeqSum(t.vars)

\* tacs.evalFunctions(funclist): each value summed over the ranks
EvalFunctions(ws, funclist) ==
    Array([i \in 1 .. Len(funclist) |->
        SeqSum([q \in 1 .. comm_size |-> LocalFunction(ws[q].t, funclist[i])])])

----------------------------------------------------------------------------
(* TacsFunctions *)

\* inputs of TacsFunctions on rank r
FuncsInputs(r, dv, ax, au) ==
    [dv_struct |-> dv,
     x_s0 |-> Gather(Ramp(ax, GlobalNodeSize), funcs[r].x_s0_src),
     f_s |-> NoVec,
     u_s |-> Gather(Ramp(au, GlobalStateSize), funcs[r].u_s_src)]

\* TacsFunctions._update_internal(inputs)
FuncsUpdateInternal(w, inputs) ==
    LET w1 == [Logged(w, "setDesignVars") EXCEPT !.t = SetDesignVars(w.t, inputs.dv_struct)]
        w2 == [Logged(w1, "setNodes") EXCEPT !.t = SetNodes(w1.t, inputs.x_s0)]
        w3 == [Logged(w2, "setNodes") EXCEPT !.t = SetNodes(w2.t, inputs.x_s0)]
        w4 == [Logged(w3, "assembleJacobian") EXCEPT !.t = AssembleJacobian(w3.t)]
        w5 == [Logged(w4, "pc.factor") EXCEPT !.t = Factor(w4.t)]
        ans == ApplyBCs(inputs.u_s)
    IN  [Logged(Logged(w5, "applyBCs"), "setVariables") EXCEPT
            !.g.ans = ans, !.t = SetVariables(w5.t, ans)]

\* TacsFunctions.compute on one rank up to the first engine reduction
FuncsComputeEnter(w, inputs) ==
    LET w0 == [w EXCEPT !.c.inputs = inputs]
    IN  IF w0.g.check_partials THEN FuncsUpdateInternal(w0, inputs) ELSE w0

\* TacsFunctions.compute on rank r from the first engine reduction on
FuncsComputeOutputs(ws, r) ==
    LET w == ws[r + 1]
        w1 == IF w.g.has_f_struct
              THEN [Logged(w, "evalFunctions") EXCEPT
                       !.c.f_struct = EvalFunctions(ws, w.g.func_list)]
              ELSE w
    IN  IF w1.g.n_mass_outputs > 0
        THEN [Logged(w1, "evalFunctions") EXCEPT
                 !.c.mass = EvalFunctions(ws, <<"mass">>)[1]]
        ELSE w1

\* compute_jacvec_product on one rank up to the first engine reduction
FuncsJacvecEnter(w, inputs, d_inputs, d_mass, d_f_struct, mode) ==
    LET w0 == [w EXCEPT !.c.inputs = inputs,
                        !.c.d_inputs0 = d_inputs, !.c.d_inputs = d_inputs,
                        !.c.d_mass = d_mass, !.c.d_f_struct = d_f_struct]
    IN  IF mode = "fwd"
        THEN IF w0.g.check_partials THEN w0
             ELSE [w0 EXCEPT !.c.exc = "ValueError"]
        ELSE IF mode = "rev" /\ w0.g.check_partials
        THEN FuncsUpdateInternal(w0, inputs)
        ELSE w0

\* faulty variant: the mass seed is also spread over the state seed
JacvecMassIntoState(w, ws, keys) ==
    IF "mass" \notin keys.d_outputs THEN w
    ELSE LET w1 == IF "dv_struct" \in keys.d_inputs
                   THEN [Logged(w, "evalDVSens") EXCEPT
                            !.c.d_inputs.dv_struct =
                                Accumulate(@, VScale(w.c.d_mass, EvalDVSens(ws, "mass")))]
                   ELSE w
             w2 == IF "x_s0" \in keys.d_inputs
                   THEN LET xpt_sens == EvalXptSens(w1.t, "mass")
                        IN  [Logged(w1, "evalXptSens") EXCEPT
                                !.g.xpt_sens = xpt_sens,
                                !.c.d_inputs.x_s0 = Accumulate(@, VScale(w1.c.d_mass, xpt_sens))]
                   ELSE w1
         IN  IF "u_s" \in keys.d_inputs
             THEN [w2 EXCEPT !.c.d_inputs.u_s =
                      Array([k \in 1 .. Len(@) |-> @[k] + w2.c.d_mass])]
             ELSE w2

\* lines 436-449: the 'mass' branch
JacvecMass(w, ws, keys) ==
    IF "mass" \notin keys.d_outputs THEN w
    ELSE LET w1 == IF "dv_struct" \in keys.d_inputs
                   THEN [Logged(w, "evalDVSens") EXCEPT
                            !.c.d_inputs.dv_struct =
                                Accumulate(@, VScale(w.c.d_mass, EvalDVSens(ws, "mass")))]
                   ELSE w
         IN  IF "x_s0" \in keys.d_inputs
             THEN LET xpt_sens == EvalXptSens(w1.t, "mass")
                  IN  [Logged(w1, "evalXptSens") EXCEPT
                          !.g.xpt_sens = xpt_sens,
                          !.c.d_inputs.x_s0 = Accumulate(@, VScale(w1.c.d_mass, xpt_sens))]
             ELSE w1

\* faulty variant: every pass of the loop uses the seed of the first function
JacvecFuncFirstSeed(w, ws, keys, ifunc) ==
    LET func == w.g.func_list[ifunc]
        seed == w.c.d_f_struct[1]
        w0 == Logged(w, "evalFunctions")
        w1 == IF "dv_struct" \in keys.d_inputs
              THEN [Logged(w0, "evalDVSens") EXCEPT
                       !.c.d_inputs.dv_struct =
                           Accumulate(@, VScale(seed, EvalDVSens(ws, func)))]
              ELSE w0
        w2 == IF "x_s0" \in keys.d_inputs
              THEN LET xpt_sens == EvalXptSens(w1.t, func)
                   IN  [Logged(w1, "evalXptSens") EXCEPT
                           !.g.xpt_sens = xpt_sens,
                           !.c.d_inputs.x_s0 = Accumulate(@, VScale(seed, xpt_sens))]
              ELSE w1
    IN  IF "u_s" \in keys.d_inputs
        THEN [Logged(w2, "evalSVSens") EXCEPT
                 !.c.d_inputs.u_s = Accumulate(@, VScale(seed, EvalSVSens(w2.t, func)))]
        ELSE w2

\* lines 452-471: one pass of the loop over func_list, ifunc counted from 1
JacvecFunc(w, ws, keys, ifunc) ==
    LET func == w.g.func_list[ifunc]
        seed == w.c.d_f_struct[ifunc]
        w0 == Logged(w, "evalFunctions")
        w1 == IF "dv_struct" \in keys.d_inputs
              THEN [Logged(w0, "evalDVSens") EXCEPT
                       !.c.d_inputs.dv_struct =
                           Accumulate(@, VScale(seed, EvalDVSens(ws, func)))]
              ELSE w0
        w2 == IF "x_s0" \in keys.d_inputs
              THEN LET xpt_sens == EvalXptSens(w1.t, func)
                   IN  [Logged(w1, "evalXptSens") EXCEPT
                           !.g.xpt_sens = xpt_sens,
                           !.c.d_inputs.x_s0 = Accumulate(@, VScale(seed, xpt_sens))]
              ELSE w1
    IN  IF "u_s" \in keys.d_inputs
        THEN [Logged(w2, "evalSVSens") EXCEPT
                 !.c.d_inputs.u_s = Accumulate(@, VScale(seed, EvalSVSens(w2.t, func)))]
        ELSE w2

RECURSIVE JacvecFuncs(_, _, _, _)
\* the passes ifunc, ifunc+1, .. of the loop
JacvecFuncs(w, ws, keys, ifunc) ==
    IF ifunc > Len(w.g.func_list) THEN w
    ELSE JacvecFuncs(JacvecFunc(w, ws, keys, ifunc), ws, keys, ifunc + 1)

\* TacsFunctions.compute_jacvec_product on rank r from the first engine
\* reduction on, ws being every rank's state there
FuncsJacvecProducts(ws, r, keys, mode) ==
    LET w == ws[r + 1]
    IN  IF mode # "rev" \/ w.c.exc # "none" THEN w
        ELSE LET w1 == JacvecMass(w, ws, keys)
             IN  IF "f_struct" \in keys.d_outputs
                 THEN JacvecFuncs(w1, ws, keys, 1)
                 ELSE w1

----------------------------------------------------------------------------
(* Entry points of TacsSolver as invoked by the framework on every rank *)

NoArgs == [p |-> 0, a |-> 0]

Invocation(name, mode, keys, after, res) ==
    [op |-> name, mode |-> mode, keys |-> keys, after_solve |-> after,
     before |-> call.op,      \* the entry point called before this one
     args |-> NoArgs,
     u_s |-> [r \in Ranks |-> res[r + 1].u_s],
     rank |-> [r \in Ranks |-> res[r + 1].c]]

\* the framework replaces outputs['u_s'] by the slice of a global vector
WithOutputs(w, r, keep, au) ==
    IF keep THEN w
    ELSE [w EXCEPT !.u_s = Gather(Ramp(au, GlobalStateSize), solver[r].f_s_src)]

solve_nonlinear ==
    /\ calls < MaxCalls
    /\ \E dv \in DvChoices, ax \in Coefs, af \in Coefs, converges \in BOOLEAN :
        \E res \in {PerRank([r \in Ranks |->
                       SolverSolveNonlinear(World(r), SolverInputs(r, dv, ax, af), converges)])} :
            /\ solver' = [r \in Ranks |-> res[r + 1].s]
            /\ tacs' = [r \in Ranks |-> res[r + 1].t]
            /\ call' = Invocation("solve_nonlinear", "none", NoKeys, FALSE, res)
            /\ calls' = calls + 1
            /\ UNCHANGED <<comm_size, state_size, node_size, func_cfg, funcs, load>>

apply_nonlinear ==
    /\ calls < MaxCalls
    /\ \E dv \in DvChoices, ax \in Coefs, af \in Coefs, keep \in BOOLEAN, au \in Coefs :
        /\ keep => au = 0
        /\ \E res \in {PerRank([r \in Ranks |->
                          SolverApplyNonlinear(WithOutputs(World(r), r, keep, au),
                                               SolverInputs(r, dv, ax, af))])},
              after \in {/\ keep
                         /\ call.op = "solve_nonlinear"
                         /\ \A r \in Ranks :
                               /\ call.rank[r].converged
                               /\ call.rank[r].inputs = SolverInputs(r, dv, ax, af)} :
               /\ solver' = [r \in Ranks |-> res[r + 1].s]
               /\ tacs' = [r \in Ranks |-> res[r + 1].t]
               /\ call' = Invocation("apply_nonlinear", "none", NoKeys, after, res)
               /\ calls' = calls + 1
               /\ UNCHANGED <<comm_size, state_size, node_size, func_cfg, funcs, load>>

Modes == {"fwd", "rev"}

solve_linear ==
    /\ calls < MaxCalls
    /\ \E mode \in Modes, ao \in Coefs, converges \in BOOLEAN :
        /\ mode = "fwd" => converges
        /\ \E res \in {PerRank([r \in Ranks |->
                          SolverSolveLinear(World(r),
                              Gather(Ramp(ao, GlobalStateSize), solver[r].f_s_src),
                              Zeros(state_size[r]), mode, converges)])} :
               /\ solver' = [r \in Ranks |-> res[r + 1].s]
               /\ tacs' = [r \in Ranks |-> res[r + 1].t]
               /\ call' = Invocation("solve_linear", mode, NoKeys, FALSE, res)
               /\ calls' = calls + 1
               /\ UNCHANGED <<comm_size, state_size, node_size, func_cfg, funcs, load>>

\* the scenarios of the sensitivity analysis: design variables, node
\* coordinates and state of scenario p
ScenarioDv(p) == Array([i \in 1 .. NumDV |-> p + i])

\* seed arrays found by a handler: a times a ramp for the keys present
Seeds(r, a, present) ==
    [dv_struct |-> IF "dv_struct" \in present THEN Ramp(a, NumDV) ELSE NoVec,
     x_s0 |-> IF "x_s0" \in present THEN Ramp(a, node_size[r]) ELSE NoVec,
     f_s |-> IF "f_s" \in present THEN Ramp(a, state_size[r]) ELSE NoVec,
     u_s |-> IF "u_s" \in present THEN Ramp(a, state_size[r]) ELSE NoVec]

\* the key sets the framework hands to apply_linear
SolverKeys ==
    {[d_inputs |-> {"dv_struct", "x_s0", "f_s"}, d_outputs |-> {"u_s"}, d_residuals |-> {"u_s"}],
     [d_inputs |-> {"dv_struct", "x_s0"}, d_outputs |-> {"u_s"}, d_residuals |-> {"u_s"}],
     [d_inputs |-> {"f_s"}, d_outputs |-> {}, d_residuals |-> {"u_s"}],
     [d_inputs |-> {"dv_struct"}, d_outputs |-> {}, d_residuals |-> {"u_s"}],
     [d_inputs |-> {"x_s0"}, d_outputs |-> {"u_s"}, d_residuals |-> {"u_s"}],
     [d_inputs |-> {"dv_struct", "x_s0", "f_s"}, d_outputs |-> {"u_s"}, d_residuals |-> {}]}

\* TacsSolver.apply_linear on every rank, given the arguments of the call
SolverApplyLinearAll(ws, p, a, keys, mode) ==
    LET enter == PerRank([r \in Ranks |->
                    SolverApplyLinear(
                        [ws[r + 1] EXCEPT
                            !.u_s = Gather(Ramp(p + 1, GlobalStateSize), solver[r].f_s_src)],
                        SolverInputs(r, ScenarioDv(p), p, 0),
                        Seeds(r, a, keys.d_inputs),
                        IF "u_s" \in keys.d_outputs THEN Ramp(a, state_size[r]) ELSE NoVec,
                        IF "u_s" \in keys.d_residuals
                        THEN Gather(Ramp(1, GlobalStateSize), solver[r].f_s_src)
                        ELSE NoVec,
                        keys, mode)])
    IN  PerRank([r \in Ranks |-> SolverApplyLinearReduce(enter, r)])

Worlds == PerRank([r \in Ranks |-> World(r)])

apply_linear ==
    /\ calls < MaxCalls
    /\ \E mode \in Modes, p \in Coefs, a \in Coefs, keys \in SolverKeys :
        /\ mode = "fwd" => a = 0 /\ keys.d_inputs = {"dv_struct", "x_s0", "f_s"}
        /\ \E res \in {SolverApplyLinearAll(Worlds, p, a, keys, mode)} :
               /\ solver' = [r \in Ranks |-> res[r + 1].s]
               /\ tacs' = [r \in Ranks |-> res[r + 1].t]
               /\ call' = [Invocation("apply_linear", mode, keys, FALSE, res) EXCEPT
                              !.args = [p |-> p, a |-> a]]
               /\ calls' = calls + 1
               /\ UNCHANGED <<comm_size, state_size, node_size, func_cfg, funcs, load>>

\* the key sets the framework hands to compute_jacvec_product
FuncsKeys ==
    {[d_inputs |-> {"dv_struct", "x_s0", "u_s"}, d_outputs |-> {"mass", "f_struct"}, d_residuals |-> {}],
     [d_inputs |-> {"dv_struct"}, d_outputs |-> {"mass"}, d_residuals |-> {}],
     [d_inputs |-> {"dv_struct", "x_s0", "u_s"}, d_outputs |-> {"mass"}, d_residuals |-> {}],
     [d_inputs |-> {"u_s"}, d_outputs |-> {"f_struct"}, d_residuals |-> {}],
     [d_inputs |-> {"x_s0"}, d_outputs |-> {"mass", "f_struct"}, d_residuals |-> {}],
     [d_inputs |-> {"dv_struct", "x_s0", "u_s"}, d_outputs |-> {}, d_residuals |-> {}]}

\* TacsFunctions.compute_jacvec_product on every rank
FuncsJacvecAll(ws, p, a, keys, mode) ==
    LET enter == PerRank([r \in Ranks |->
                    FuncsJacvecEnter(
                        ws[r + 1],
                        FuncsInputs(r, ScenarioDv(p), p, p + 1),
                        Seeds(r, a, keys.d_inputs),
                        IF "mass" \in keys.d_outputs THEN p + 2 ELSE 0,
                        IF "f_struct" \in keys.d_outputs
                        THEN Array([i \in 1 .. Len(funcs[r].func_list) |-> p + 2 + i])
                        ELSE NoVec,
                        mode)])
    IN  PerRank([r \in Ranks |-> FuncsJacvecProducts(enter, r, keys, mode)])

compute_jacvec_product ==
    /\ calls < MaxCalls
    /\ \E mode \in Modes, p \in Coefs, a \in Coefs, keys \in FuncsKeys :
        /\ mode = "fwd" => a = 0 /\ keys.d_outputs = {"mass", "f_struct"}
        /\ \A r \in Ranks :
              /\ "mass" \in keys.d_outputs => funcs[r].mass
              /\ "f_struct" \in keys.d_outputs => funcs[r].has_f_struct
        /\ \E res \in {FuncsJacvecAll(Worlds, p, a, keys, mode)} :
               /\ funcs' = [r \in Ranks |-> res[r + 1].g]
               /\ tacs' = [r \in Ranks |-> res[r + 1].t]
               /\ call' = [Invocation("compute_jacvec_product", mode, keys, FALSE, res) EXCEPT
                              !.args = [p |-> p, a |-> a]]
               /\ calls' = calls + 1
               /\ UNCHANGED <<comm_size, state_size, node_size, func_cfg, solver, load>>

\* TacsFunctions.compute on every rank
FuncsComputeAll(ws, dv, ax, au) ==
    LET enter == PerRank([r \in Ranks |->
                    FuncsComputeEnter(ws[r + 1], FuncsInputs(r, dv, ax, au))])
    IN  PerRank([r \in Ranks |-> FuncsComputeOutputs(enter, r)])

compute ==
    /\ calls < MaxCalls
    /\ \E dv \in DvChoices, ax \in Coefs, au \in Coefs :
        \E res \in {FuncsComputeAll(Worlds, dv, ax, au)} :
            /\ funcs' = [r \in Ranks |-> res[r + 1].g]
            /\ tacs' = [r \in Ranks |-> res[r + 1].t]
            /\ call' = Invocation("compute", "none", NoKeys, FALSE, res)
            /\ calls' = calls + 1
            /\ UNCHANGED <<comm_size, state_size, node_size, func_cfg, solver, load>>

----------------------------------------------------------------------------
(* Specifications *)

\* nodes owned by rank r of a well-formed mesh
LocalNodes(r) == MaxNodes - (r % MaxNodes)

NoInvocation ==
    [op |-> "none", mode |-> "none", keys |-> NoKeys, after_solve |-> FALSE,
     before |-> "none",
     args |-> NoArgs,
     u_s |-> [r \in Ranks |-> Zeros(state_size[r])],
     rank |-> [r \in Ranks |-> NoRankCall]]

\* every component set up on a well-formed mesh of ndof dofs per node
InitMesh(funclists) ==
    /\ comm_size \in 1 .. MaxRanks
    /\ \E ndof \in DofChoices :
          /\ node_size = [r \in Ranks |-> 3 * LocalNodes(r)]
          /\ state_size = [r \in Ranks |-> ndof * LocalNodes(r)]
    /\ func_cfg \in funclists
    /\ solver = [r \in Ranks |-> SolverSetupRank(r)]
    /\ funcs = [r \in Ranks |-> FuncsSetupRank(r)]
    /\ load = [r \in Ranks |-> LoadSetupRank(r)]
    /\ tacs = [r \in Ranks |-> EngineInitial(r)]
    /\ call = NoInvocation
    /\ calls = 0

\* analysis: residual evaluations and solves at changing inputs
Init == InitMesh({<<"ks", "mass", "compliance">>})

Next == solve_nonlinear \/ apply_nonlinear

Spec == Init /\ [][Next]_vars

\* sensitivity analysis: the linear entry points in both modes
NextRev == apply_linear \/ solve_linear \/ compute_jacvec_product

SpecRev == Init /\ [][NextRev]_vars

\* <<state vector size, node vector size>> an engine may report on a rank:
\* n nodes of d dofs each, and sizes that are not of that form
SizePairs ==
    {<<d * n, 3 * n>> : d \in DofChoices, n \in 0 .. MaxNodes}
        \cup {<<20, 10>>, <<7, 10>>, <<5, 6>>}

FuncLists ==
    {<<>>, <<"mass">>, <<"ks">>, <<"ks", "mass", "compliance">>,
     <<"mass", "compliance", "mass", "ks">>}

\* components constructed and initialized, setup not yet run; the run
\* script has given the factory functions as options, or has not
InitSetup ==
    /\ comm_size \in 1 .. MaxRanks
    /\ \E sizes \in [Ranks -> SizePairs] :
          /\ state_size = [r \in Ranks |-> sizes[r][1]]
          /\ node_size = [r \in Ranks |-> sizes[r][2]]
    /\ func_cfg \in FuncLists
    /\ \E given \in BOOLEAN :
          /\ solver = [r \in Ranks |-> [SolverInitial EXCEPT !.factory = given]]
          /\ funcs = [r \in Ranks |-> [FuncsInitial EXCEPT !.factory = given]]
          /\ load = [r \in Ranks |-> [LoadInitial EXCEPT !.factory = given]]
    /\ tacs = [r \in Ranks |-> EngineInitial(r)]
    /\ call = NoInvocation
    /\ calls = 0

NextSetup == TacsSolver_setup \/ TacsFunctions_setup \/ PrescribedLoad_setup

SpecSetup == InitSetup /\ [][NextSetup]_vars

\* a whole run: the components are initialized on a well-formed mesh, the
\* framework runs setup of each and then calls the entry points in any
\* order and mode
InitRun ==
    /\ comm_size \in 1 .. MaxRanks
    /\ \E ndof \in DofChoices :
          /\ node_size = [r \in Ranks |-> 3 * LocalNodes(r)]
          /\ state_size = [r \in Ranks |-> ndof * LocalNodes(r)]
    /\ func_cfg = <<"ks", "mass", "compliance">>
    /\ solver = [r \in Ranks |-> SolverInitial]
    /\ funcs = [r \in Ranks |-> FuncsInitial]
    /\ load = [r \in Ranks |-> LoadInitial]
    /\ tacs = [r \in Ranks |-> EngineInitial(r)]
    /\ call = NoInvocation
    /\ calls = 0

\* the framework calls no entry point before setup of every component
SetupDone ==
    \A r \in Ranks :
        solver[r].status = "setup" /\ funcs[r].status = "setup" /\ load[r].status = "setup"

NextRun ==
    \/ TacsSolver_setup
    \/ TacsFunctions_setup
    \/ PrescribedLoad_setup
    \/ SetupDone /\ apply_nonlinear
    \/ SetupDone /\ solve_nonlinear
    \/ SetupDone /\ solve_linear
    \/ SetupDone /\ apply_linear
    \/ SetupDone /\ compute
    \/ SetupDone /\ compute_jacvec_product

SpecRun == InitRun /\ [][NextRun]_vars

\* the node vector is not a multiple of 3, or state_size/(node_size/3) is
\* not an integer
Malformed(r) ==
    \/ node_size[r] % 3 # 0
    \/ (node_size[r] # 0 /\ (3 * state_size[r]) % node_size[r] # 0)

----------------------------------------------------------------------------
(* C1: the ranges computed by setup partition the global index space *)

\* the ranges [lo[r], hi[r]) of the ranks partition [0, sum of size) exactly
Partitions(lo, hi, size) ==
    /\ lo[0] = 0
    /\ hi[comm_size - 1] = SeqSum(Allgather(size))
    /\ \A r \in Ranks : hi[r] - lo[r] = size[r] /\ lo[r] <= hi[r]
    /\ \A r \in Ranks : r + 1 < comm_size => hi[r] = lo[r + 1]
    /\ \A r, q \in Ranks : r # q => (hi[r] <= lo[q] \/ hi[q] <= lo[r])

\* the src_indices of the ranks are their ranges, and no index is in two
\* of them
IndicesOf(src, lo, hi) ==
    /\ \A r \in Ranks : src[r] = Arange(lo[r], hi[r])
    /\ \A r, q \in Ranks : r # q =>
          \A i \in 1 .. Len(src[r]), j \in 1 .. Len(src[q]) : src[r][i] # src[q][j]

\* C1: in each of TacsSolver, TacsFunctions and PrescribedLoad, once setup
\* has completed, the (start, end) pairs of the ranks partition the global
\* node vector and the global state vector: range r has the rank's local
\* size, starts at 0 on rank 0, ends where the range of rank r+1 starts, the
\* last one ends at the total, and no global index belongs to two ranks.
C1_PartitionExact ==
    /\ (\A r \in Ranks : solver[r].status = "setup") =>
          /\ Partitions([r \in Ranks |-> solver[r].s1], [r \in Ranks |-> solver[r].s2],
                        state_size)
          /\ Partitions([r \in Ranks |-> solver[r].n1], [r \in Ranks |-> solver[r].n2],
                        node_size)
          /\ IndicesOf([r \in Ranks |-> solver[r].f_s_src],
                       [r \in Ranks |-> solver[r].s1], [r \in Ranks |-> solver[r].s2])
          /\ IndicesOf([r \in Ranks |-> solver[r].x_s0_src],
                       [r \in Ranks |-> solver[r].n1], [r \in Ranks |-> solver[r].n2])
    /\ (\A r \in Ranks : funcs[r].status = "setup") =>
          /\ Partitions([r \in Ranks |-> funcs[r].s1], [r \in Ranks |-> funcs[r].s2],
                        state_size)
          /\ Partitions([r \in Ranks |-> funcs[r].n1], [r \in Ranks |-> funcs[r].n2],
                        node_size)
          /\ IndicesOf([r \in Ranks |-> funcs[r].u_s_src],
                       [r \in Ranks |-> funcs[r].s1], [r \in Ranks |-> funcs[r].s2])
          /\ IndicesOf([r \in Ranks |-> funcs[r].x_s0_src],
                       [r \in Ranks |-> funcs[r].n1], [r \in Ranks |-> funcs[r].n2])
    /\ (\A r \in Ranks : load[r].status = "setup") =>
          /\ Partitions([r \in Ranks |-> load[r].n1], [r \in Ranks |-> load[r].n2],
                        node_size)
          /\ IndicesOf([r \in Ranks |-> load[r].x_s0_src],
                       [r \in Ranks |-> load[r].n1], [r \in Ranks |-> load[r].n2])

\* C1 witness: the three components set up on several ranks of unequal
\* sizes, one of them owning nothing of the state vector
C1_Witness ==
    /\ comm_size = MaxRanks
    /\ \A r \in Ranks : /\ solver[r].status = "setup"
                        /\ funcs[r].status = "setup"
                        /\ load[r].status = "setup"
    /\ state_size[0] > state_size[1]
    /\ node_size[0] # node_size[1]
    /\ solver[1].s1 > 0
    /\ solver[1].s2 > solver[1].s1

\* C1 witness of the empty range: TacsFunctions set up with a rank that owns
\* no node and no dof
C1_WitnessEmptyRank ==
    /\ comm_size = MaxRanks
    /\ \A r \in Ranks : funcs[r].status = "setup"
    /\ state_size[0] = 0
    /\ state_size[1] > 0

----------------------------------------------------------------------------
(* C11: configuration errors and the collectives of setup *)

\* a configuration error condition holds on rank r for component c
ConfigurationErrorOn(c, r) == ~c[r].factory \/ Malformed(r)

\* C11 as the specification states it: in setup of TacsSolver,
\* TacsFunctions and PrescribedLoad, a rank on which a configuration error
\* condition holds (factory function missing, node size not divisible by 3,
\* dof ratio not integral) fails without having issued any all-gather, and
\* no rank is left blocked in an all-gather.
C11_FailBeforeCollective ==
    \A r \in Ranks :
        /\ (ConfigurationErrorOn(solver, r) /\ solver[r].status # "initialized") =>
               (solver[r].status = "failed" /\ solver[r].allgathers = 0)
        /\ (ConfigurationErrorOn(funcs, r) /\ funcs[r].status # "initialized") =>
               (funcs[r].status = "failed" /\ funcs[r].allgathers = 0)
        /\ (ConfigurationErrorOn(load, r) /\ load[r].status # "initialized") =>
               (load[r].status = "failed" /\ load[r].allgathers = 0)
        /\ solver[r].status # "blocked"
        /\ funcs[r].status # "blocked"
        /\ load[r].status # "blocked"

\* C11 for the one condition the code does detect: with a factory function
\* missing every rank fails before the first all-gather
C11_MissingFactoryFailsFirst ==
    \A r \in Ranks :
        /\ (~solver[r].factory /\ solver[r].status # "initialized") =>
               (solver[r].status = "failed" /\ solver[r].allgathers = 0)
        /\ (~funcs[r].factory /\ funcs[r].status # "initialized") =>
               (funcs[r].status = "failed" /\ funcs[r].allgathers = 0)
        /\ (~load[r].factory /\ load[r].status # "initialized") =>
               (load[r].status = "failed" /\ load[r].allgathers = 0)

----------------------------------------------------------------------------
(* C12: the sizes are gathered by setup only *)

\* the index ranges setup computed from the gathered sizes
SolverOffsets(r) ==
    <<solver[r].s1, solver[r].s2, solver[r].n1, solver[r].n2, solver[r].x_s0_src, solver[r].f_s_src>>
FuncsOffsets(r) ==
    <<funcs[r].s1, funcs[r].s2, funcs[r].n1, funcs[r].n2, funcs[r].x_s0_src, funcs[r].u_s_src>>
LoadOffsets(r) == <<load[r].n1, load[r].n2, load[r].x_s0_src>>

\* what one step may do to the gathers and offsets of rank r
GatherStep(r) ==
    /\ (solver[r].status = "initialized" /\ solver'[r].status = "setup") =>
           solver'[r].allgathers = 2
    /\ (funcs[r].status = "initialized" /\ funcs'[r].status = "setup") =>
           funcs'[r].allgathers = 2
    /\ (load[r].status = "initialized" /\ load'[r].status = "setup") =>
           load'[r].allgathers = 1
    /\ solver[r].status = "setup" =>
           /\ solver'[r].allgathers = solver[r].allgathers
           /\ SolverOffsets(r)' = SolverOffsets(r)
    /\ funcs[r].status = "setup" =>
           /\ funcs'[r].allgathers = funcs[r].allgathers
           /\ FuncsOffsets(r)' = FuncsOffsets(r)
    /\ load[r].status = "setup" =>
           /\ load'[r].allgathers = load[r].allgathers
           /\ LoadOffsets(r)' = LoadOffsets(r)

\* C12: setup issues exactly one all-gather for each distributed vector it
\* declares with source indices (state and node sizes in TacsSolver and
\* TacsFunctions, the node size in PrescribedLoad); no later call of
\* apply_nonlinear, solve_nonlinear, solve_linear, apply_linear, compute or
\* compute_jacvec_product issues another, and the offsets computed at setup
\* stay as they are.
C12_GatherOnlyAtSetup == [][\A r \in Ranks : GatherStep(r)]_vars

\* two entry points have run after setup on the largest communicator and
\* the gathers of setup are the only ones issued
C12_Witness ==
    /\ comm_size = MaxRanks
    /\ SetupDone
    /\ calls = MaxCalls
    /\ call.op = "apply_linear"
    /\ \A r \in Ranks :
          solver[r].allgathers = 2 /\ funcs[r].allgathers = 2 /\ load[r].allgathers = 1

----------------------------------------------------------------------------
(* C13: the collectives of setup are matched on every rank *)

\* C13 as the specification states it: the sequence of collectives does
\* not depend on the rank or on rank-local sizes, so once setup has run
\* every rank has issued the same number of all-gathers, each of them is
\* matched, and setup has returned on every rank (no rank is blocked).
C13_CollectivesMatched ==
    \A r1 \in Ranks, r2 \in Ranks :
        /\ solver[r1].allgathers = solver[r2].allgathers
        /\ funcs[r1].allgathers = funcs[r2].allgathers
        /\ load[r1].allgathers = load[r2].allgathers
        /\ solver[r1].status \in {"initialized", "setup", "failed"}
        /\ funcs[r1].status \in {"initialized", "setup", "failed"}
        /\ load[r1].status \in {"initialized", "setup", "failed"}

----------------------------------------------------------------------------
(* C15: the functions TacsFunctions.setup keeps and the outputs it declares *)

NotMass(func) == func # "mass"
ConfiguredMass == \E i \in 1 .. Len(func_cfg) : func_cfg[i] = "mass"

\* C15: after TacsFunctions.setup the kept list is exactly the non-mass
\* functions of the configured list, in the configured order; 'f_struct' is
\* declared exactly when that list is not empty, with one entry per
\* function of it; 'mass' is declared once when the configured list holds
\* at least one mass function, however many, and not at all otherwise.
C15_FunctionOutputs ==
    \A r \in Ranks :
        funcs[r].status = "setup" =>
            /\ funcs[r].func_list = SelectSeq(func_cfg, NotMass)
            /\ funcs[r].has_f_struct <=> Len(SelectSeq(func_cfg, NotMass)) > 0
            /\ funcs[r].has_f_struct =>
                  funcs[r].f_struct_shape = Len(SelectSeq(func_cfg, NotMass))
            /\ funcs[r].n_mass_outputs = (IF ConfiguredMass THEN 1 ELSE 0)
            /\ funcs[r].mass <=> ConfiguredMass

\* setup has run on a list with two mass functions around other functions
C15_Witness ==
    /\ comm_size = MaxRanks
    /\ Len(SelectSeq(func_cfg, NotMass)) = 2
    /\ Len(func_cfg) = 4
    /\ func_cfg[1] = "mass"
    /\ \A r \in Ranks :
          funcs[r].status = "setup" /\ funcs[r].n_mass_outputs = 1
              /\ funcs[r].f_struct_shape = 2

----------------------------------------------------------------------------
(* C2, C4, C5, C10: the analysis entry points of TacsSolver *)

\* the design variables and node coordinates handed to the last call
InputPoint(r) == [dv |-> call.rank[r].inputs.dv_struct, x |-> call.rank[r].inputs.x_s0]

\* C2: no stale solve.  Whatever the inputs of the earlier calls were, the
\* factorization and the matrix used by the linear solve of a solve_nonlinear
\* call are those of the operator assembled at the design variables and the
\* node coordinates of that very call.
C2_NoStaleSolve ==
    call.op = "solve_nonlinear" =>
        \A r \in Ranks :
            /\ call.rank[r].solve_pc = InputPoint(r)
            /\ call.rank[r].solve_mat = InputPoint(r)

\* C2 witness: a solve_nonlinear call that found, on entry, the factorization
\* of an earlier call with other inputs, and solved with its own
C2_Witness ==
    /\ call.op = "solve_nonlinear"
    /\ comm_size = MaxRanks
    /\ \A r \in Ranks :
          /\ call.rank[r].refactored
          /\ call.rank[r].converged
          /\ call.rank[r].solve_pc = InputPoint(r)

\* positions of an engine call in the log of a handler
Pos(log, name) == {i \in 1 .. Len(log) : log[i] = name}

\* C4: every gmres.solve issued by solve_nonlinear comes, within the call,
\* after setDesignVars and setNodes, then assembleJacobian, then pc.factor,
\* in that order; no design or node mutation lies between the assembly and
\* the solve; and the solve finds the engine Factorized, never only
\* Configured or Assembled.
C4_SolveOrder ==
    call.op = "solve_nonlinear" =>
        \A r \in Ranks :
            LET log == call.rank[r].log
                muts == Pos(log, "setDesignVars") \cup Pos(log, "setNodes")
            IN  /\ Pos(log, "gmres.solve") # {}
                /\ call.rank[r].solve_phase = "Factorized"
                /\ \A i \in Pos(log, "gmres.solve") :
                      \E a \in Pos(log, "assembleJacobian"), f \in Pos(log, "pc.factor") :
                          /\ a < f /\ f < i
                          /\ \E d \in Pos(log, "setDesignVars") : d < a
                          /\ \E n \in Pos(log, "setNodes") : n < a
                          /\ \A m \in muts : m < a
                          /\ \A b \in Pos(log, "assembleJacobian") : b <= a

\* C4 witness: a converged solve_nonlinear on every rank, the engine left
\* in phase Converged
C4_Witness ==
    /\ call.op = "solve_nonlinear"
    /\ comm_size = MaxRanks
    /\ \A r \in Ranks :
          /\ call.rank[r].converged
          /\ tacs[r].phase = "Converged"
          /\ Len(call.rank[r].log) >= 7

\* C5: solve/residual round trip.  apply_nonlinear called right after a
\* converged solve_nonlinear, with the same inputs and with the u_s that
\* solve returned, writes the zero vector into residuals['u_s'], the
\* constrained dofs included.
C5_RoundTrip ==
    (call.op = "apply_nonlinear" /\ call.after_solve) =>
        \A r \in Ranks : call.rank[r].residuals = Zeros(state_size[r])

\* C5 witness: such a round trip with a load that is not zero at the
\* constrained dof and a solution that is not zero
C5_Witness ==
    /\ call.op = "apply_nonlinear"
    /\ call.after_solve
    /\ comm_size = MaxRanks
    /\ \A r \in Ranks :
          /\ call.rank[r].inputs.f_s[1] # 0
          /\ call.rank[r].u_s0 # Zeros(state_size[r])
          /\ call.rank[r].inputs.x_s0 # Zeros(node_size[r])

\* C10 as the specification states it: when the iterative solver reports
\* non-convergence, solve_nonlinear signals DivergedSolve and leaves
\* outputs['u_s'] as it was on entry.
C10_DivergedSolveSurfaced ==
    call.op = "solve_nonlinear" =>
        \A r \in Ranks :
            ~call.rank[r].converged =>
                /\ call.rank[r].exc = "DivergedSolve"
                /\ call.u_s[r] = call.rank[r].u_s0

----------------------------------------------------------------------------
(* C3, C6, C7, C8: the linear entry points *)

\* C3 as the specification states it: a call of solve_linear, apply_linear
\* or compute_jacvec_product with mode 'fwd' on a component in its default
\* configuration ends in an exception on every rank.
C3_ForwardModeRaises ==
    (call.mode = "fwd"
        /\ call.op \in {"solve_linear", "apply_linear", "compute_jacvec_product"}) =>
        \A r \in Ranks : call.rank[r].exc # "none"

\* the last reverse-mode call repeated with all seed arrays zero
ZeroSeedCall ==
    IF call.op = "apply_linear"
    THEN SolverApplyLinearAll(Worlds, call.args.p, 0, call.keys, call.mode)
    ELSE FuncsJacvecAll(Worlds, call.args.p, 0, call.keys, call.mode)

\* C6: reverse-mode seeds are accumulated.  After a reverse-mode call of
\* TacsSolver.apply_linear or TacsFunctions.compute_jacvec_product, every
\* seed array present (dv_struct, x_s0, f_s, u_s) holds what it held before
\* the call plus the contribution of the call, which is what the same call
\* leaves in arrays that held zeros; this for any content found.
C6_SeedsAccumulated ==
    (call.mode = "rev" /\ call.op \in {"apply_linear", "compute_jacvec_product"}) =>
        \A r \in Ranks :
            LET c == call.rank[r]
                z == ZeroSeedCall[r + 1].c
            IN  /\ c.exc = z.exc
                /\ c.d_inputs.dv_struct = VAdd(c.d_inputs0.dv_struct, z.d_inputs.dv_struct)
                /\ c.d_inputs.x_s0 = VAdd(c.d_inputs0.x_s0, z.d_inputs.x_s0)
                /\ c.d_inputs.f_s = VAdd(c.d_inputs0.f_s, z.d_inputs.f_s)
                /\ c.d_inputs.u_s = VAdd(c.d_inputs0.u_s, z.d_inputs.u_s)
                /\ c.d_outputs = VAdd(c.d_outputs0, z.d_outputs)

\* C6 witness: a reverse-mode apply_linear on several ranks that found
\* non-zero seeds in every array and changed each of them
C6_Witness ==
    /\ call.op = "apply_linear" /\ call.mode = "rev"
    /\ comm_size = MaxRanks
    /\ call.keys.d_inputs = {"dv_struct", "x_s0", "f_s"}
    /\ call.keys.d_outputs = {"u_s"}
    /\ call.rank[0].d_inputs.dv_struct # call.rank[0].d_inputs0.dv_struct
    /\ \A r \in Ranks :
          LET c == call.rank[r]
          IN  /\ c.exc = "none"
              /\ c.d_inputs0.dv_struct # Zeros(NumDV)
              /\ c.d_inputs0.x_s0 # Zeros(node_size[r])
              /\ c.d_inputs0.f_s # Zeros(state_size[r])
              /\ c.d_outputs0 # Zeros(state_size[r])
              /\ c.d_inputs.x_s0 # c.d_inputs0.x_s0
              /\ c.d_inputs.f_s # c.d_inputs0.f_s
              /\ c.d_outputs # c.d_outputs0

\* C6 witness for TacsFunctions: a reverse-mode compute_jacvec_product that
\* found non-zero seeds and changed dv_struct, x_s0 and u_s
C6_WitnessFunctions ==
    /\ call.op = "compute_jacvec_product" /\ call.mode = "rev"
    /\ comm_size = MaxRanks
    /\ \A r \in Ranks :
          LET c == call.rank[r]
          IN  /\ c.d_inputs0.dv_struct # Zeros(NumDV)
              /\ c.d_inputs.dv_struct # c.d_inputs0.dv_struct
              /\ c.d_inputs.x_s0 # c.d_inputs0.x_s0
              /\ c.d_inputs.u_s # c.d_inputs0.u_s

\* the reverse-mode apply_linear calls that reach evalAdjointResProduct on
\* every rank
ProductReturned ==
    /\ call.op = "apply_linear" /\ call.mode = "rev"
    /\ "dv_struct" \in call.keys.d_inputs
    /\ \A r \in Ranks : call.rank[r].at_product /\ call.rank[r].exc = "none"

\* C7: the design-variable product is counted once.  Every rank gets the
\* same product, the local parts summed over the ranks; rank 0 adds it to
\* d_inputs['dv_struct'], every other rank leaves d_inputs['dv_struct'] as
\* it was, so the increments of all ranks add up to one unscaled copy.
C7_ProductCountedOnce ==
    ProductReturned =>
        LET product == SumOverRanks(
                           Array([q \in 1 .. comm_size |->
                               LocalAdjResProduct(tacs[q - 1], call.rank[q - 1].d_residuals0)]),
                           NumDV)
            incr == Array([q \in 1 .. comm_size |->
                        VSub(call.rank[q - 1].d_inputs.dv_struct,
                             call.rank[q - 1].d_inputs0.dv_struct)])
        IN  /\ \A r \in Ranks : call.rank[r].product = product
            /\ incr[1] = product
            /\ \A r \in Ranks : r # 0 => incr[r + 1] = Zeros(NumDV)
            /\ SumOverRanks(incr, NumDV) = product

\* C7 witness: such a call on several ranks with a product that is not zero
\* and seeds that were not zero
C7_Witness ==
    /\ ProductReturned
    /\ comm_size = MaxRanks
    /\ call.rank[0].product # Zeros(NumDV)
    /\ call.rank[0].d_inputs.dv_struct # call.rank[0].d_inputs0.dv_struct
    /\ \A r \in Ranks :
          /\ call.rank[r].d_inputs0.dv_struct # Zeros(NumDV)
          /\ LocalAdjResProduct(tacs[r], call.rank[r].d_residuals0) # Zeros(NumDV)

\* C8 as the specification states it: in reverse-mode apply_linear with
\* 'f_s' among the input seeds, for every number of dofs per node, every
\* owned dof k of d_inputs['f_s'] decreases by the residual seed of dof k,
\* the constrained dofs excepted, and nothing else changes.
C8_LoadSeedEntryForEntry ==
    (call.op = "apply_linear" /\ call.mode = "rev"
        /\ "f_s" \in call.keys.d_inputs /\ "u_s" \in call.keys.d_residuals) =>
        \A r \in Ranks :
            /\ call.rank[r].exc = "none"
            /\ call.rank[r].d_inputs.f_s =
                   VSub(call.rank[r].d_inputs0.f_s, ApplyBCs(call.rank[r].d_residuals0))

\* C8 restricted to 3 dofs per node, where the copy is entry for entry
C8_ThreeDofPerNode ==
    (call.op = "apply_linear" /\ call.mode = "rev"
        /\ "f_s" \in call.keys.d_inputs /\ "u_s" \in call.keys.d_residuals
        /\ \A r \in Ranks : solver[r].ndof = 3) =>
        \A r \in Ranks :
            /\ call.rank[r].exc = "none"
            /\ call.rank[r].d_inputs.f_s =
                   VSub(call.rank[r].d_inputs0.f_s, ApplyBCs(call.rank[r].d_residuals0))

----------------------------------------------------------------------------
(* C14: the mass seed and the state seed *)

\* a reverse-mode compute_jacvec_product whose only output seed is 'mass'
MassOnlyCall ==
    /\ call.op = "compute_jacvec_product"
    /\ call.mode = "rev"
    /\ call.keys.d_outputs = {"mass"}

\* C14: a reverse-mode compute_jacvec_product with 'mass' as the only
\* output seed leaves d_inputs['u_s'] as it was; of the input seeds only
\* dv_struct and x_s0 can change.
C14_MassLeavesStateSeed ==
    MassOnlyCall =>
        \A r \in Ranks :
            /\ call.rank[r].d_inputs.u_s = call.rank[r].d_inputs0.u_s
            /\ call.rank[r].d_inputs.f_s = call.rank[r].d_inputs0.f_s

\* such a call with a state seed that is present and not zero, in which
\* the mass seed did reach dv_struct and x_s0
C14_Witness ==
    /\ MassOnlyCall
    /\ comm_size = MaxRanks
    /\ "u_s" \in call.keys.d_inputs
    /\ \A r \in Ranks :
          /\ call.rank[r].d_inputs0.u_s # Zeros(state_size[r])
          /\ call.rank[r].d_inputs.u_s # NoVec
          /\ call.rank[r].d_inputs.dv_struct # call.rank[r].d_inputs0.dv_struct
          /\ call.rank[r].d_inputs.x_s0 # call.rank[r].d_inputs0.x_s0

----------------------------------------------------------------------------
(* C16: _update_internal repeated with the same arguments *)

\* TacsFunctions.compute called once more with the inputs of the last call
ComputeAgain ==
    LET enter == PerRank([r \in Ranks |->
                    FuncsComputeEnter(World(r), call.rank[r].inputs)])
    IN  PerRank([r \in Ranks |-> FuncsComputeOutputs(enter, r)])

\* C16: _update_internal of TacsSolver or of TacsFunctions called a second
\* time with the dv_struct, x_s0 and state values of the call before leaves
\* the component and the engine as the first call left them, and the
\* residual of a repeated apply_nonlinear and the function values of a
\* repeated compute are those of the first call.
C16_UpdateIdempotent ==
    /\ call.op = "apply_nonlinear" =>
           \A r \in Ranks :
               LET again == SolverUpdateInternal(World(r), call.rank[r].inputs, TRUE)
                   recomputed == SolverApplyNonlinear(World(r), call.rank[r].inputs)
               IN  /\ again.t = tacs[r]
                   /\ again.s.ans = solver[r].ans
                   /\ recomputed.t = tacs[r]
                   /\ recomputed.s = solver[r]
                   /\ recomputed.c.residuals = call.rank[r].residuals
    /\ call.op = "compute" =>
           \A r \in Ranks :
               LET again == FuncsUpdateInternal(World(r), call.rank[r].inputs)
                   recomputed == ComputeAgain[r + 1]
               IN  /\ again.t = tacs[r]
                   /\ again.g = funcs[r]
                   /\ recomputed.t = tacs[r]
                   /\ recomputed.c.f_struct = call.rank[r].f_struct
                   /\ recomputed.c.mass = call.rank[r].mass

\* apply_nonlinear has run after another entry point, with a state and
\* node coordinates that are not zero, on the largest communicator
C16_Witness ==
    /\ call.op = "apply_nonlinear"
    /\ calls = MaxCalls
    /\ comm_size = MaxRanks
    /\ \A r \in Ranks :
          /\ call.u_s[r] # Zeros(state_size[r])
          /\ call.rank[r].inputs.x_s0 # Zeros(node_size[r])
          /\ call.rank[r].residuals # Zeros(state_size[r])
          /\ tacs[r].phase = "Factorized"

\* compute has run after another entry point and returned function values
C16_WitnessFunctions ==
    /\ call.op = "compute"
    /\ calls = MaxCalls
    /\ comm_size = MaxRanks
    /\ \A r \in Ranks :
          /\ call.rank[r].inputs.u_s # Zeros(state_size[r])
          /\ Len(call.rank[r].f_struct) = 2
          /\ call.rank[r].f_struct[2] # 0
          /\ call.rank[r].mass # 0

----------------------------------------------------------------------------
(* C17: the reverse accumulation of compute_jacvec_product as a sum *)

\* the sensitivity of func with respect to input key on rank r, at the
\* point the engine is at
Sensitivity(r, key, func) ==
    IF key = "dv_struct" THEN EvalDVSens(Worlds, func)
    ELSE IF key = "x_s0" THEN EvalXptSens(tacs[r], func)
    ELSE EvalSVSens(tacs[r], func)

RECURSIVE SeededSum(_, _, _)
\* the seeded sensitivities of the functions 1 .. i of func_list, the last
\* one outermost
SeededSum(r, key, i) ==
    IF i = 0 THEN Zeros(Len(call.rank[r].d_inputs0[key]))
    ELSE VAdd(VScale(call.rank[r].d_f_struct[i],
                     Sensitivity(r, key, funcs[r].func_list[i])),
              SeededSum(r, key, i - 1))

\* initial seed + sum over the seeded outputs of sensitivity * seed, summed
\* in the order opposite to the one of the code
ExpectedSeed(r, key) ==
    LET from_funcs == IF "f_struct" \in call.keys.d_outputs
                      THEN SeededSum(r, key, Len(funcs[r].func_list))
                      ELSE Zeros(Len(call.rank[r].d_inputs0[key]))
        from_mass == IF "mass" \in call.keys.d_outputs
                     THEN VScale(call.rank[r].d_mass, Sensitivity(r, key, "mass"))
                     ELSE Zeros(Len(call.rank[r].d_inputs0[key]))
    IN  VAdd(VAdd(from_funcs, from_mass), call.rank[r].d_inputs0[key])

\* a reverse-mode compute_jacvec_product that returned
ReverseJacvecCall ==
    /\ call.op = "compute_jacvec_product"
    /\ call.mode = "rev"
    /\ \A r \in Ranks : call.rank[r].exc = "none"

\* C17: the reverse accumulation of compute_jacvec_product does not depend
\* on the order in which the outputs are processed: every input seed ends
\* as its initial value plus the sum, over the seeded outputs, of the
\* sensitivity of that output times its seed.
C17_SeedIsSumOfContributions ==
    ReverseJacvecCall =>
        \A r \in Ranks : \A key \in call.keys.d_inputs :
            call.rank[r].d_inputs[key] = ExpectedSeed(r, key)

\* all three input seeds were present and not zero, mass and two functions
\* were seeded, and every input seed received something
C17_Witness ==
    /\ ReverseJacvecCall
    /\ comm_size = MaxRanks
    /\ call.keys.d_inputs = {"dv_struct", "x_s0", "u_s"}
    /\ call.keys.d_outputs = {"mass", "f_struct"}
    /\ \A r \in Ranks :
          /\ Len(call.rank[r].d_f_struct) = 2
          /\ call.rank[r].d_inputs0.u_s # Zeros(state_size[r])
          /\ \A key \in call.keys.d_inputs :
                call.rank[r].d_inputs[key] # call.rank[r].d_inputs0[key]

----------------------------------------------------------------------------
(* C18: what reverse apply_linear adds to d_outputs['u_s'] *)

\* a reverse-mode apply_linear with 'u_s' among d_outputs and d_residuals
ReverseOutputsCall ==
    /\ call.op = "apply_linear"
    /\ call.mode = "rev"
    /\ "u_s" \in call.keys.d_outputs
    /\ "u_s" \in call.keys.d_residuals

\* C18 as the specification states it: in reverse apply_linear the vector
\* added to d_outputs['u_s'] is the assembled operator applied to
\* d_residuals['u_s'], with boundary conditions applied; it does not depend
\* on outputs['u_s'].
C18_OperatorAppliedToResidualSeed ==
    ReverseOutputsCall =>
        \A r \in Ranks :
            VSub(call.rank[r].d_outputs, call.rank[r].d_outputs0) =
                ApplyBCs(MatMult(tacs[r].mat, call.rank[r].d_residuals0))

----------------------------------------------------------------------------
(* C19: the copy loop of the d_inputs['f_s'] branch *)

\* a reverse-mode apply_linear that entered the d_inputs['f_s'] branch
ReverseLoadCall ==
    /\ call.op = "apply_linear"
    /\ call.mode = "rev"
    /\ "f_s" \in call.keys.d_inputs
    /\ "u_s" \in call.keys.d_residuals

\* the index pairs <<written, read>> of the loop of lines 271-273 on rank r
\* (python indices)
CopyLoopIndices(r) ==
    {<<solver[r].ndof * i + j, 3 * i + j>> :
        i \in 0 .. (Len(call.rank[r].inputs.x_s0) \div 3) - 1, j \in 0 .. 2}

\* C19 as the specification states it: for every number of dofs per node
\* (2 and 6 included) and every node count the copy loop stays inside the
\* residual buffer and the residual seed, raises nothing, and writes no
\* dof more than once.
C19_CopyLoopInBounds ==
    ReverseLoadCall =>
        \A r \in Ranks :
            /\ call.rank[r].exc # "IndexError"
            /\ \A ix \in CopyLoopIndices(r) :
                  /\ ix[1] < Len(solver[r].res)
                  /\ ix[2] < Len(call.rank[r].d_residuals0)
            /\ \A ix \in CopyLoopIndices(r), iy \in CopyLoopIndices(r) :
                  ix[1] = iy[1] => ix = iy

\* C19 for the meshes the loop handles: with at least 3 dofs per node every
\* write is inside the buffer and no dof is written twice
C19_InBoundsFromThreeDofs ==
    ReverseLoadCall =>
        \A r \in Ranks :
            solver[r].ndof >= 3 =>
                /\ call.rank[r].exc # "IndexError"
                /\ \A ix \in CopyLoopIndices(r) : ix[1] < Len(solver[r].res)
                /\ \A ix \in CopyLoopIndices(r), iy \in CopyLoopIndices(r) :
                      ix[1] = iy[1] => ix = iy

----------------------------------------------------------------------------
(* C20: the factorization solve_linear solves with *)

\* a reverse-mode solve_linear
ReverseSolveCall == call.op = "solve_linear" /\ call.mode = "rev"

\* C20 as the specification states it: in whatever order the framework
\* calls apply_nonlinear, solve_nonlinear, apply_linear and solve_linear
\* after setup, the solve of solve_linear finds a factorization, and it is
\* the factorization of the matrix as assembled (engine Factorized or
\* Converged, not merely Configured or Assembled).
C20_SolveLinearFactorized ==
    ReverseSolveCall =>
        \A r \in Ranks :
            /\ call.rank[r].solve_pc # NoPoint
            /\ call.rank[r].solve_mat # NoPoint
            /\ call.rank[r].solve_pc = call.rank[r].solve_mat
            /\ call.rank[r].solve_phase \in {"Factorized", "Converged"}

\* C20 once some entry point has assembled: every entry point that
\* assembles also factors before it returns, so a solve_linear that finds
\* a matrix finds its factorization
C20_FactorizedOnceAssembled ==
    ReverseSolveCall =>
        \A r \in Ranks :
            call.rank[r].solve_mat # NoPoint =>
                /\ call.rank[r].solve_pc = call.rank[r].solve_mat
                /\ call.rank[r].solve_phase \in {"Factorized", "Converged"}

----------------------------------------------------------------------------
(* C21: the values an entry point writes and the calls made before it *)

\* the values a call wrote on one rank: outputs['u_s'], the exception, the
\* residual, the seeds and the function values
Written(w) ==
    <<w.u_s, w.c.exc, w.c.residuals, w.c.d_inputs, w.c.d_outputs, w.c.d_residuals,
      w.c.f_struct, w.c.mass>>

\* what the last call wrote on rank r
Observed(r) ==
    <<call.u_s[r], call.rank[r].exc, call.rank[r].residuals, call.rank[r].d_inputs,
      call.rank[r].d_outputs, call.rank[r].d_residuals,
      call.rank[r].f_struct, call.rank[r].mass>>

\* outputs['u_s'] as the framework handed it to the last call
OutputsGiven(r) ==
    IF call.rank[r].u_s0 # NoVec THEN call.rank[r].u_s0 ELSE call.u_s[r]

\* rank r right after setup, no entry point called yet
FreshWorld(r) ==
    [s |-> SolverSetupRank(r), g |-> FuncsSetupRank(r), t |-> EngineInitial(r),
     u_s |-> OutputsGiven(r), c |-> NoRankCall]

FreshWorlds == PerRank([r \in Ranks |-> FreshWorld(r)])

\* every rank after setup and one apply_nonlinear at design variables dv
AfterApplyNonlinear(dv) ==
    PerRank([r \in Ranks |->
        [SolverApplyNonlinear(FreshWorld(r), SolverInputs(r, dv, 1, 1)) EXCEPT
            !.u_s = OutputsGiven(r), !.c = NoRankCall]])

\* runs that differ in the calls made before the last one
Histories == {FreshWorlds} \cup {AfterApplyNonlinear(dv) : dv \in DvChoices}

\* the scratch buffers of the component as after setup, the engine as the
\* last call found it (solve_linear leaves the engine as it is)
FreshBuffers ==
    PerRank([r \in Ranks |-> [FreshWorld(r) EXCEPT !.t = tacs[r]]])

\* the last call made again, with its arguments, on the worlds ws
Replay(ws) ==
    IF call.op = "apply_nonlinear"
    THEN PerRank([r \in Ranks |->
             SolverApplyNonlinear(ws[r + 1], call.rank[r].inputs)])
    ELSE IF call.op = "solve_nonlinear"
    THEN PerRank([r \in Ranks |->
             SolverSolveNonlinear(ws[r + 1], call.rank[r].inputs, call.rank[r].converged)])
    ELSE IF call.op = "solve_linear"
    THEN PerRank([r \in Ranks |->
             SolverSolveLinear(ws[r + 1], call.rank[r].d_outputs0,
                               call.rank[r].d_residuals0, call.mode,
                               call.rank[r].converged)])
    ELSE IF call.op = "apply_linear"
    THEN SolverApplyLinearAll(ws, call.args.p, call.args.a, call.keys, call.mode)
    ELSE IF call.op = "compute"
    THEN LET enter == PerRank([r \in Ranks |->
                          FuncsComputeEnter(ws[r + 1], call.rank[r].inputs)])
         IN  PerRank([r \in Ranks |-> FuncsComputeOutputs(enter, r)])
    ELSE FuncsJacvecAll(ws, call.args.p, call.args.a, call.keys, call.mode)

\* the last call writes the same values when made after the calls of ws
SameAfter(ws) ==
    \E again \in {Replay(ws)} :
        \A r \in Ranks : Written(again[r + 1]) = Observed(r)

C21_WitnessFunctions ==
    /\ SetupDone
    /\ comm_size = MaxRanks
    /\ call.op = "compute_jacvec_product"
    /\ call.before = "apply_linear"
    /\ call.mode = "rev"
    /\ "x_s0" \in call.keys.d_inputs
    /\ call.keys.d_outputs = {"mass", "f_struct"}
    /\ \A r \in Ranks :
          call.rank[r].d_inputs.x_s0 # call.rank[r].d_inputs0.x_s0

----------------------------------------------------------------------------
(* C9: PrescribedLoad.setup and sizes that are not 3 coordinates per node *)

\* C9 as the specification states it: whenever the sizes reported on a rank
\* are malformed, PrescribedLoad.setup ends on that rank with a
\* ConfigurationError, and never completes with a truncated dof count.
C9_ConfigurationError ==
    \A r \in Ranks :
        (Malformed(r) /\ load[r].status # "initialized") =>
            /\ load[r].exc = "ConfigurationError"
            /\ load[r].status # "setup"

====
